---- MODULE Spec2Model ----
(***************************************************************************)
(* Acm::File of Falltergeist (src/src/Format/Int/File.cpp, second half):   *)
(* the streaming ACM container.  The constructor parses a 14-byte header,  *)
(* readSamples pulls 16-bit samples block by block through a ValueUnpacker *)
(* and a Decoder, rewind restarts the stream.                              *)
(*                                                                         *)
(* Dat::Stream, ValueUnpacker and Decoder are not part of the sources at   *)
(* hand; they are modelled from the specification (sections 4.2, 4.3, 6).  *)
(***************************************************************************)
EXTENDS Integers, Sequences, FiniteSets, TLC

\* ------------------------------------------------------------------------
\* Bounds of the model
\* ------------------------------------------------------------------------
MaxSamples == 3
MaxBlocks == 2
MaxCount == 2
MaxLevels == 1
MaxSubblocks == 2

\* reads are followed while the produced count is at most MaxProduced
MaxProduced == MaxSamples + 2

\* longest run of reads compared with a single read
MaxSeg == MaxSamples + 1

\* ------------------------------------------------------------------------
\* Program constants
\* ------------------------------------------------------------------------
HEADER_SIZE == 14

\* the magic constant, as the four bytes of the stream (little endian)
IP_ACM_SIG == <<151, 40, 3, 1>>

\* a payload chunk the unpacker cannot decode
BadChunk == 255

\* number of distinct adaptive contexts of the unpacker and of the decoder
CtxMod == 3

\* spread of the reconstructed values, wide enough to leave 16 bits
Scale == 70000

\* what a read outside the block buffer yields when it does not fault
Indeterminate == 99999

\* what _values holds until _makeNewSamples first assigns it: the
\* constructor does not write it, so it is whatever the memory held
Unassigned == Indeterminate

\* ------------------------------------------------------------------------
\* Arithmetic
\* ------------------------------------------------------------------------
RECURSIVE Pow2(_)
Pow2(n) == IF n <= 0 THEN 1 ELSE 2 * Pow2(n - 1)

\* the division that rounds toward zero, instead of the shift
ShiftRight_TowardZero(x, n) ==
    IF x >= 0 THEN x \div Pow2(n) ELSE 0 - ((0 - x) \div Pow2(n))

\* x >> n on a signed int (arithmetic shift)
ShiftRight(x, n) == x \div Pow2(n)

\* x & 15 on a two's complement value
And15(x) == x % 16

\* (short) x stored in a uint16_t slot: the low 16 bits
Narrow16(x) == x % 65536

\* the low 16 bits read as a signed 16-bit integer
AsInt16(u) == IF u >= 32768 THEN u - 65536 ELSE u

\* ------------------------------------------------------------------------
\* Dat::Stream reads (little endian)
\* ------------------------------------------------------------------------
\* four bytes at 0-based offset off, as a 32-bit two's complement integer
Int32LE(bytes, off) ==
    LET b3 == bytes[off + 4]
    IN  bytes[off + 1] + 256 * bytes[off + 2] + 65536 * bytes[off + 3]
          + 16777216 * (IF b3 >= 128 THEN b3 - 256 ELSE b3)

\* two bytes at 0-based offset off, as an unsigned 16-bit integer
UInt16LE(bytes, off) == bytes[off + 1] + 256 * bytes[off + 2]

\* two raw bytes copied into an int16_t
Int16Raw(bytes, off) ==
    LET u == UInt16LE(bytes, off) IN IF u >= 32768 THEN u - 65536 ELSE u

\* ------------------------------------------------------------------------
\* Streams the program may be given
\* ------------------------------------------------------------------------
SignatureBytes == { IP_ACM_SIG, <<151, 40, 3, 2>> }

SampleCountBytes ==
    { <<n, 0, 0, 0>> : n \in 0..MaxSamples } \cup { <<255, 255, 255, 255>> }

\* channels and rate: mono 22050 Hz, stereo 44100 Hz
ChannelRateBytes == { <<1, 0, 34, 86>>, <<2, 0, 68, 172>> }

GeometryWord(l, s) == s * 16 + l

WordBytes(w) == LET u == w % 65536 IN <<u % 256, u \div 256>>

GeometryBytes ==
    { WordBytes(GeometryWord(l, s)) : l \in 0..MaxLevels, s \in 0..MaxSubblocks }
      \cup { WordBytes(GeometryWord(1, -1)) }

HeaderBytes ==
    { sg \o sc \o cr \o g :
        sg \in SignatureBytes, sc \in SampleCountBytes,
        cr \in ChannelRateBytes, g \in GeometryBytes }

Chunks == {0, 1, BadChunk}

RECURSIVE SeqsUpTo(_, _)
SeqsUpTo(S, n) ==
    IF n = 0 THEN { <<>> }
    ELSE LET shorter == SeqsUpTo(S, n - 1)
         IN  shorter \cup { Append(p, c) : p \in shorter, c \in S }

Payloads == SeqsUpTo(Chunks, MaxBlocks)

VARIABLES
    stream,     \* the bytes behind _stream, once given: [header, payload]
    status,     \* "unopened", "open", "failed", "crashed"
    file,       \* the File object (fields, block buffer, unpacker, decoder)
    ctor,       \* how far the constructor got
    last,       \* the last call: operation, arguments, result
    produced,   \* samples produced since construction or the last rewind
    rewound,    \* rewind has been called on the File
    shadow,     \* a File freshly constructed over the same stream
    seg         \* the run of readSamples calls since the last restart

vars == <<stream, status, file, ctor, last, produced, rewound, shadow, seg>>

\* ------------------------------------------------------------------------
\* The File object
\* ------------------------------------------------------------------------
NoFile ==
    [samplesReady |-> 0, samplesLeft |-> 0, samples |-> 0, channels |-> 0,
     bitrate |-> 0, levels |-> 0, subblocks |-> 0, blockSize |-> 0,
     block |-> <<>>, values |-> Unassigned, pos |-> 0, uctx |-> 0, dctx |-> 0]

NoCtor ==
    [error |-> "none", tmpword |-> 0, levels |-> 0, subblocks |-> 0,
     headerRead |-> FALSE, parsedPos |-> 0,
     samplesSet |-> FALSE, blockAllocated |-> FALSE,
     unpackerMade |-> FALSE, unpackerInit |-> FALSE,
     decoderMade |-> FALSE, decoderInit |-> FALSE]

\* ValueUnpacker::init and ValueUnpacker::reset: the adaptive context they
\* establish
UnpackerInitCtx == 0

\* Decoder::init: the context it establishes
DecoderInitCtx == 0

\* the two halves of the word exchanged
GeometryOf_Swapped(tmpword) ==
    [subblocks |-> And15(tmpword), levels |-> ShiftRight(tmpword, 4)]

\* _subblocks = tmpword >> 4; _levels = tmpword & 15
GeometryOf(tmpword) ==
    [subblocks |-> ShiftRight(tmpword, 4), levels |-> And15(tmpword)]

\* the shift and the factor exchanged
BlockSizeOf_Swapped(levels, subblocks) == Pow2(subblocks) * levels

\* _blockSize = (1 << _levels) * _subblocks
BlockSizeOf(levels, subblocks) == Pow2(levels) * subblocks

\* no signature check
SignatureOk_Always(bytes) == TRUE

\* hdr.signature != IP_ACM_SIG, negated
SignatureOk(bytes) == Int32LE(bytes, 0) = Int32LE(IP_ACM_SIG, 0)

\* the sizes of the reads that parse the header: signature, samples,
\* channels, rate, and the two bytes of tmpword
HeaderReadSizes == <<4, 4, 2, 2, 2>>

RECURSIVE SumSeq(_)
SumSeq(q) == IF q = <<>> THEN 0 ELSE Head(q) + SumSeq(Tail(q))

\* resize never refuses a size
ResizeThrows_Never(blockSize) == FALSE

\* _block.resize(_blockSize): a negative size, converted to size_t, exceeds
\* max_size() and resize throws
ResizeThrows(blockSize) == blockSize < 0

\* the result of init() is ignored
InitOk_IgnoreResult(made, reported) == made

\* !(!_unpacker || !_unpacker->init()), and the same for the decoder
InitOk(made, reported) == made /\ reported

\* File::File(Dat::Stream&&).  uOk and dOk are what ValueUnpacker::init and
\* Decoder::init report.
Ctor(bytes, uOk, dOk) ==
    LET tmpword   == Int16Raw(bytes, 12)
        subblocks == GeometryOf(tmpword).subblocks
        levels    == GeometryOf(tmpword).levels
        samples   == Int32LE(bytes, 4)
        blockSize == BlockSizeOf(levels, subblocks)
        parsed    == 0 + SumSeq(HeaderReadSizes)
        c0 == [NoCtor EXCEPT !.tmpword = tmpword, !.headerRead = TRUE,
                             !.parsedPos = parsed,
                             !.levels = levels, !.subblocks = subblocks]
        f0 == [NoFile EXCEPT !.subblocks = subblocks, !.levels = levels,
                             !.pos = parsed]
        f1 == [f0 EXCEPT !.samplesLeft = samples, !.samples = samples,
                         !.channels = UInt16LE(bytes, 8),
                         !.bitrate = UInt16LE(bytes, 10),
                         !.blockSize = blockSize]
        c1 == [c0 EXCEPT !.samplesSet = TRUE]
        f2 == [f1 EXCEPT !.block = [k \in 1..blockSize |-> 0]]
        c2 == [c1 EXCEPT !.blockAllocated = TRUE, !.unpackerMade = TRUE]
        c3 == [c2 EXCEPT !.unpackerInit = TRUE, !.decoderMade = TRUE]
        f3 == [f2 EXCEPT !.uctx = UnpackerInitCtx, !.dctx = DecoderInitCtx]
    IN  IF ~SignatureOk(bytes)
        THEN [status |-> "failed", file |-> NoFile,
              ctor |-> [c0 EXCEPT !.error = "signature"]]
        ELSE IF ResizeThrows(blockSize)
        THEN [status |-> "failed", file |-> NoFile,
              ctor |-> [c1 EXCEPT !.error = "length"]]
        ELSE IF ~InitOk(TRUE, uOk)
        THEN [status |-> "failed", file |-> NoFile,
              ctor |-> [c2 EXCEPT !.error = "unpacker"]]
        ELSE IF ~InitOk(TRUE, dOk)
        THEN [status |-> "failed", file |-> NoFile,
              ctor |-> [c3 EXCEPT !.error = "decoder"]]
        ELSE [status |-> "open", file |-> f3,
              ctor |-> [c3 EXCEPT !.decoderInit = TRUE]]

\* ------------------------------------------------------------------------
\* ValueUnpacker and Decoder
\* ------------------------------------------------------------------------
\* ValueUnpacker::getOneBlock: the next chunk of the payload, read through
\* the adaptive context, fills the first subblocks slots of the block.
\* False at the end of the payload and on a chunk that does not decode.
getOneBlock(F, payload) ==
    LET idx == F.pos - HEADER_SIZE + 1
    IN  IF idx > Len(payload) \/ payload[idx] = BadChunk
        THEN [ok |-> FALSE, F |-> F]
        ELSE LET q == (payload[idx] + F.uctx) % CtxMod
             IN [ok |-> TRUE,
                 F  |-> [F EXCEPT
                     !.block = [k \in 1..F.blockSize |->
                                  IF k <= F.subblocks THEN q ELSE F.block[k]],
                     !.uctx = (F.uctx + payload[idx] + 1) % CtxMod,
                     !.pos = F.pos + 1]]

\* ValueUnpacker::reset
reset(F) == [F EXCEPT !.uctx = UnpackerInitCtx]

\* Decoder::decodeData: expands the coefficients in place into blockSize
\* values; the result depends on the decoder's context, which moves on with
\* every block.
decodeData(F) ==
    LET q == IF F.blockSize > 0 THEN F.block[1] ELSE 0
    IN  [F EXCEPT
            !.block = [k \in 1..F.blockSize |->
                         (q - 1) * Scale + 16 * F.dctx + (k - 1)],
            !.dctx = (F.dctx + q + 1) % CtxMod]

\* ------------------------------------------------------------------------
\* File::_makeNewSamples, File::readSamples, File::rewind
\* ------------------------------------------------------------------------
\* The(S) is the element of a singleton S.  A value bound through a
\* singleton set, { e(x) : x \in {v} }, is computed once, however often e
\* uses it.
The(S) == CHOOSE x \in S : TRUE

\* one step of a call, with the counters and the cursor it found and the
\* value it handled
Event(op, F, val) ==
    [op |-> op, ready |-> F.samplesReady, left |-> F.samplesLeft,
     at |-> F.values, val |-> val]

\* what a refill does, in order: getOneBlock, then, when it succeeded,
\* decodeData with _subblocks and the assignments
RefillEvents(F, d, after) ==
    <<Event("get", F, 1), Event("decode", F, d.subblocks),
      Event("refill", after, 0)>>

\* how many calls of op a run of events holds
Calls(ev, op) == Cardinality({i \in DOMAIN ev : ev[i].op = op})

\* getOneBlock returned false: return 0
NoBlock(F, g) == [ret |-> 0, F |-> g.F, ev |-> <<Event("get", F, 0)>>]

\* _samplesLeft is not decremented by the refill
_makeNewSamples_KeepLeft(F, payload) ==
    The({ IF ~g.ok
          THEN NoBlock(F, g)
          ELSE The({ The({ [ret |-> 1, F |-> after,
                            ev |-> RefillEvents(F, d, after)]
                           : after \in {[d EXCEPT
                                 !.values = 0,
                                 !.samplesReady =
                                     IF d.blockSize > d.samplesLeft
                                     THEN d.samplesLeft ELSE d.blockSize]} })
                     : d \in {decodeData(g.F)} })
          : g \in {getOneBlock(F, payload)} })

\* the refill gives up the blocks that remain
_makeNewSamples_DropRest(F, payload) ==
    The({ IF ~g.ok
          THEN NoBlock(F, g)
          ELSE The({ The({ [ret |-> 1, F |-> after,
                            ev |-> RefillEvents(F, d, after)]
                           : after \in {[d EXCEPT
                                 !.values = 0,
                                 !.samplesReady =
                                     IF d.blockSize > d.samplesLeft
                                     THEN d.samplesLeft ELSE d.blockSize,
                                 !.samplesLeft = 0]} })
                     : d \in {decodeData(g.F)} })
          : g \in {getOneBlock(F, payload)} })

\* the whole block is made ready, whatever is left of the stream
_makeNewSamples_FullBlock(F, payload) ==
    The({ IF ~g.ok
          THEN NoBlock(F, g)
          ELSE The({ The({ [ret |-> 1, F |-> after,
                            ev |-> RefillEvents(F, d, after)]
                           : after \in {[d EXCEPT
                                 !.values = 0,
                                 !.samplesReady = d.blockSize,
                                 !.samplesLeft = d.samplesLeft - d.blockSize]} })
                     : d \in {decodeData(g.F)} })
          : g \in {getOneBlock(F, payload)} })

\* _values is not put back at the start of the block
_makeNewSamples_KeepCursor(F, payload) ==
    The({ IF ~g.ok
          THEN NoBlock(F, g)
          ELSE The({ The({ The({ [ret |-> 1, F |-> after,
                                  ev |-> RefillEvents(F, d, after)]
                                 : after \in {[d EXCEPT
                                       !.samplesReady = ready,
                                       !.samplesLeft = d.samplesLeft - ready]} })
                           : ready \in {IF d.blockSize > d.samplesLeft
                                        THEN d.samplesLeft ELSE d.blockSize} })
                     : d \in {decodeData(g.F)} })
          : g \in {getOneBlock(F, payload)} })

\* the block is handed out as unpacked, without decodeData
_makeNewSamples_NoDecode(F, payload) ==
    The({ IF ~g.ok
          THEN NoBlock(F, g)
          ELSE The({ The({ [ret |-> 1, F |-> after,
                            ev |-> <<Event("get", F, 1),
                                     Event("refill", after, 0)>>]
                           : after \in {[g.F EXCEPT
                                 !.values = 0,
                                 !.samplesReady = ready,
                                 !.samplesLeft = g.F.samplesLeft - ready]} })
                     : ready \in {IF g.F.blockSize > g.F.samplesLeft
                                  THEN g.F.samplesLeft ELSE g.F.blockSize} })
          : g \in {getOneBlock(F, payload)} })

\* a successful refill reports 0
_makeNewSamples_ReturnsZero(F, payload) ==
    The({ IF ~g.ok
          THEN NoBlock(F, g)
          ELSE The({ The({ The({ [ret |-> 0, F |-> after,
                                  ev |-> RefillEvents(F, d, after)]
                                 : after \in {[d EXCEPT
                                       !.values = 0,
                                       !.samplesReady = ready,
                                       !.samplesLeft = d.samplesLeft - ready]} })
                           : ready \in {IF d.blockSize > d.samplesLeft
                                        THEN d.samplesLeft ELSE d.blockSize} })
                     : d \in {decodeData(g.F)} })
          : g \in {getOneBlock(F, payload)} })

\* if (!getOneBlock(block)) return 0;  decodeData(block, _subblocks);
\* _values = _block.data();  _samplesReady = min(_blockSize, _samplesLeft);
\* _samplesLeft -= _samplesReady;  return 1;
_makeNewSamples(F, payload) ==
    The({ IF ~g.ok
          THEN NoBlock(F, g)
          ELSE The({ The({ The({ [ret |-> 1, F |-> after,
                                  ev |-> RefillEvents(F, d, after)]
                                 : after \in {[d EXCEPT
                                       !.values = 0,
                                       !.samplesReady = ready,
                                       !.samplesLeft = d.samplesLeft - ready]} })
                           : ready \in {IF d.blockSize > d.samplesLeft
                                        THEN d.samplesLeft ELSE d.blockSize} })
                     : d \in {decodeData(g.F)} })
          : g \in {getOneBlock(F, payload)} })

\* the end of the stream is never noticed
AtEnd_Never(F) == FALSE

\* if (_samplesLeft == 0) break;
AtEnd(F) == F.samplesLeft = 0

\* the running state of one readSamples call
NewCall(F) ==
    [F |-> F, res |-> 0, out |-> <<>>, gets |-> 0, decodes |-> 0,
     iters |-> 0, refills |-> <<>>, trace |-> <<>>, outside |-> FALSE,
     crashed |-> FALSE, done |-> FALSE]

\* *buffer = (short)((*_values) >> _levels); _values++; buffer++; res += 1;
\* _samplesReady--.  A read outside the block buffer either faults or
\* yields an indeterminate value, read by read: the read made after
\* faultAt samples of the call faults if it is outside the block, the
\* other reads outside it do not.
Emit(c, faultAt) ==
    LET F == c.F
        inside == F.values >= 0 /\ F.values < F.blockSize
    IN  IF ~inside /\ c.res = faultAt
        THEN [c EXCEPT !.crashed = TRUE, !.outside = TRUE,
                       !.trace = Append(c.trace,
                                   Event("fault", F, Indeterminate))]
        ELSE [c EXCEPT
                !.out = Append(c.out,
                          IF inside
                          THEN Narrow16(ShiftRight(F.block[F.values + 1], F.levels))
                          ELSE Indeterminate),
                !.trace = Append(c.trace,
                            Event("emit", F,
                                  IF inside THEN F.block[F.values + 1]
                                  ELSE Indeterminate)),
                !.outside = c.outside \/ ~inside,
                !.res = c.res + 1,
                !.F = [F EXCEPT !.values = F.values + 1,
                                !.samplesReady = F.samplesReady - 1]]

\* a successful refill, as the call's record keeps it
Refilled(c, m) ==
    [c EXCEPT !.F = m.F, !.iters = c.iters + 1,
              !.gets = c.gets + Calls(m.ev, "get"),
              !.decodes = c.decodes + Calls(m.ev, "decode"),
              !.refills = Append(c.refills, m.F.samplesReady),
              !.trace = c.trace \o m.ev]

\* while (res < count) { ... }
\* one pass through the body of the while loop; done marks a break
iteration(c, count, payload, faultAt) ==
    IF c.F.samplesReady = 0
    THEN IF AtEnd(c.F)
         THEN [c EXCEPT !.iters = c.iters + 1, !.done = TRUE]
         ELSE The({ IF m.ret = 0
                    THEN [c EXCEPT !.F = m.F, !.iters = c.iters + 1,
                                   !.gets = c.gets + Calls(m.ev, "get"),
                                   !.decodes = c.decodes + Calls(m.ev, "decode"),
                                   !.trace = c.trace \o m.ev,
                                   !.done = TRUE]
                    ELSE Emit(Refilled(c, m), faultAt)
                    : m \in {_makeNewSamples(c.F, payload)} })
    ELSE Emit([c EXCEPT !.iters = c.iters + 1], faultAt)

\* while (res < count) { ... } return res;
RECURSIVE readLoop(_, _, _, _)
readLoop(c, count, payload, faultAt) ==
    IF c.done \/ c.crashed \/ ~(c.res < count)
    THEN c
    ELSE \* the loop goes on from the state n that one pass leaves
         [n \in {iteration(c, count, payload, faultAt)} |->
             readLoop(n, count, payload, faultAt)][iteration(c, count, payload, faultAt)]

\* the body of the loop runs once before count is looked at
readSamples_DoWhile(F, count, payload, faultAt) ==
    The({ readLoop(n, count, payload, faultAt)
          : n \in {iteration(NewCall(F), count, payload, faultAt)} })

\* every call drops what is left of the current block
readSamples_Restart(F, count, payload, faultAt) ==
    readLoop(NewCall([F EXCEPT !.samplesReady = 0]), count, payload, faultAt)

readSamples(F, count, payload, faultAt) ==
    readLoop(NewCall(F), count, payload, faultAt)

\* the reads of a call that fall outside the block buffer, numbered by the
\* samples produced before them, as the call makes them when none faults
OutsideReads(F, count, payload) ==
    The({ { Calls(SubSeq(r.trace, 1, i - 1), "emit") :
              i \in { j \in DOMAIN r.trace :
                        /\ r.trace[j].op = "emit"
                        /\ ~(r.trace[j].at >= 0 /\ r.trace[j].at < F.blockSize) } }
          : r \in {readSamples(F, count, payload, count)} })

\* where a call can fault: at any one of its reads outside the block
\* buffer, or (count) at none
FaultPoints(F, count, payload) == {count} \cup OutsideReads(F, count, payload)

\* _samplesLeft is not restored
rewind_KeepLeft(F) ==
    reset([F EXCEPT !.pos = HEADER_SIZE, !.samplesReady = 0])

\* the stream is sought to its start, not past the header
rewind_SeekZero(F) ==
    reset([F EXCEPT !.pos = 0, !.samplesReady = 0, !.samplesLeft = F.samples])

\* _samplesReady is not zeroed
rewind_KeepReady(F) ==
    reset([F EXCEPT !.pos = HEADER_SIZE, !.samplesLeft = F.samples])

rewind(F) ==
    reset([F EXCEPT !.pos = HEADER_SIZE,
                    !.samplesReady = 0,
                    !.samplesLeft = F.samples])

\* the calls rewind makes on its collaborators: one setPosition, one reset
rewindCalls == [seeks |-> <<HEADER_SIZE>>, resets |-> 1]

\* the accessors
samples(F) == F.samples
channels(F) == F.channels
bitrate(F) == F.bitrate
samplesLeft(F) == F.samplesLeft

\* ------------------------------------------------------------------------
\* The state machine
\* ------------------------------------------------------------------------
NoLast ==
    [op |-> "none", count |-> 0, ret |-> 0, out |-> <<>>, gets |-> 0,
     decodes |-> 0, iters |-> 0, refills |-> <<>>, trace |-> <<>>,
     outside |-> FALSE, pre |-> NoFile, shadowRet |-> 0, shadowOut |-> <<>>,
     uOk |-> TRUE, dOk |-> TRUE, resets |-> 0]

NewSeg(F) == [start |-> F, total |-> 0, out |-> <<>>, parts |-> 0]

\* calls counted in a run: none, one, several
MoreParts(n) == IF n >= 2 THEN 2 ELSE n + 1

\* the streams a File may be constructed over
Streams == [header : HeaderBytes, payload : Payloads]

NoStream == [header |-> <<>>, payload |-> <<>>]

Init ==
    /\ stream = NoStream
    /\ status = "unopened"
    /\ file = NoFile
    /\ ctor = NoCtor
    /\ last = NoLast
    /\ produced = 0
    /\ rewound = FALSE
    /\ shadow = NoFile
    /\ seg = NewSeg(NoFile)

\* a File constructed over the stream, both collaborators initializing
Fresh == Ctor(stream.header, TRUE, TRUE).file

\* File(stream) over one of the given streams
ConstructOver(streams) ==
    /\ status = "unopened"
    /\ \E st \in streams, uOk \in BOOLEAN, dOk \in BOOLEAN :
        \E r \in {Ctor(st.header, uOk, dOk)} :
              /\ stream' = st
              /\ status' = r.status
              /\ file' = r.file
              /\ ctor' = r.ctor
              /\ shadow' = r.file
              /\ seg' = NewSeg(r.file)
              /\ last' = [NoLast EXCEPT !.op = "construct",
                                         !.uOk = uOk, !.dOk = dOk]
    /\ UNCHANGED <<produced, rewound>>

Construct == ConstructOver(Streams)

\* readSamples(buffer, count), followed while produced is at most cap
ReadCall(count, cap) ==
    /\ status = "open"
    /\ produced <= cap
    /\ \E faultAt \in FaultPoints(file, count, stream.payload) :
        \E r  \in {readSamples(file, count, stream.payload, faultAt)},
           sh \in {readSamples(shadow, count, stream.payload, faultAt)},
           sg \in {IF seg.total + count <= MaxSeg THEN seg ELSE NewSeg(file)} :
              /\ status' = IF r.crashed THEN "crashed" ELSE "open"
              /\ file' = r.F
              /\ shadow' = sh.F
              /\ produced' = produced + r.res
              /\ last' = [NoLast EXCEPT
                          !.op = "read", !.count = count, !.ret = r.res,
                          !.out = r.out, !.gets = r.gets,
                          !.decodes = r.decodes, !.iters = r.iters,
                          !.refills = r.refills, !.trace = r.trace,
                          !.outside = r.outside, !.pre = file,
                          !.shadowRet = sh.res, !.shadowOut = sh.out]
              /\ seg' = [sg EXCEPT !.total = sg.total + count,
                                   !.out = sg.out \o r.out,
                                   !.parts = MoreParts(sg.parts)]
    /\ UNCHANGED <<stream, ctor, rewound>>

Read(count) == ReadCall(count, MaxProduced)

Rewind ==
    /\ status = "open"
    /\ file' = rewind(file)
    /\ shadow' = Fresh
    /\ produced' = 0
    /\ rewound' = TRUE
    /\ last' = [NoLast EXCEPT !.op = "rewind", !.pre = file,
                               !.resets = rewindCalls.resets]
    /\ seg' = NewSeg(file')
    /\ UNCHANGED <<stream, status, ctor>>

Next ==
    \/ Construct
    \/ \E count \in 0..MaxCount : Read(count)
    \/ Rewind

Spec == Init /\ [][Next]_vars

\* a caller that opens the stream and keeps asking for samples, never
\* rewinding
ReadPositive == \E count \in 1..MaxCount : Read(count)

NextRead ==
    \/ Construct
    \/ \E count \in 0..MaxCount : Read(count)

LiveSpec == Init /\ [][NextRead]_vars /\ WF_vars(ReadPositive)

\* the stream of the worked example: 50 samples, geometry word
\* (4 << 4) | 3, so that _levels = 3, _subblocks = 4 and _blockSize = 32
ScenarioHeader ==
    IP_ACM_SIG \o <<50, 0, 0, 0>> \o <<1, 0, 34, 86>> \o <<GeometryWord(3, 4), 0>>

ScenarioFile == Ctor(ScenarioHeader, TRUE, TRUE).file

\* blocks needed to deliver the declared samples
ScenarioBlocks ==
    (ScenarioFile.samples + ScenarioFile.blockSize - 1) \div ScenarioFile.blockSize

ScenarioStreams ==
    [header : {ScenarioHeader}, payload : SeqsUpTo(Chunks, ScenarioBlocks + 1)]

ScenarioCounts ==
    {0, ScenarioFile.samples - ScenarioFile.blockSize,
     ScenarioFile.blockSize, ScenarioFile.samples}

ScenarioConstruct == ConstructOver(ScenarioStreams)

ScenarioRead(count) == ReadCall(count, ScenarioFile.samples)

ScenarioNext ==
    \/ ScenarioConstruct
    \/ \E count \in ScenarioCounts : ScenarioRead(count)
    \/ Rewind

ScenarioSpec == Init /\ [][ScenarioNext]_vars

TypeOK ==
    /\ status \in {"unopened", "open", "failed", "crashed"}
    /\ produced \in 0..(MaxProduced + MaxCount)

\* ------------------------------------------------------------------------
\* Properties
\* ------------------------------------------------------------------------
\* the sample count the header declares, as the File stores it
DeclaredSamples ==
    IF status = "unopened" THEN 0 ELSE Int32LE(stream.header, 4)

\* a header with a non-negative sample count and a block of positive size
SoundHeader == file.samples >= 0 /\ file.blockSize > 0

\* C1 as stated: on a stream opened with any header the constructor
\* accepts and never rewound, produced + samplesLeft() never exceeds the
\* declared sample count.
C1_ConservationAnyHeader ==
    (status = "open" /\ ~rewound)
        => produced + samplesLeft(file) <= DeclaredSamples

\* C1 amended: the same, for headers with a non-negative sample count and a
\* positive blockSize.
C1_Conservation ==
    (status = "open" /\ ~rewound /\ SoundHeader)
        => produced + samplesLeft(file) <= DeclaredSamples

C1_Witness ==
    /\ status = "open" /\ ~rewound /\ SoundHeader
    /\ last.op = "read" /\ last.gets > last.decodes
    /\ produced >= 2 /\ file.samplesLeft > 0

\* C2: after rewind, every readSamples call returns the count and the
\* samples that the same calls return on a freshly constructed File.
C2_RewindEqualsFresh ==
    (status = "open" /\ rewound /\ last.op = "read")
        => (last.ret = last.shadowRet /\ last.out = last.shadowOut)

\* C3: right after rewind the unpacker context and the decoder context are
\* those of a freshly constructed File and the stream is at the post-header
\* offset.
C3_RewindResetsContexts ==
    (status = "open" /\ last.op = "rewind")
        => /\ file.uctx = Fresh.uctx
           /\ file.dctx = Fresh.dctx
           /\ file.pos = HEADER_SIZE

\* C4: a run of readSamples calls with counts n1..nk yields, concatenated,
\* the samples of one call with count n1+...+nk made from the state the run
\* started in, and ends with the same samplesReady and samplesLeft.
C4_PartialReadEquivalence ==
    (status = "open" /\ seg.parts >= 1)
        => LET one == readSamples(seg.start, seg.total, stream.payload, seg.total)
           IN  /\ one.out = seg.out
               /\ one.F.samplesReady = file.samplesReady
               /\ one.F.samplesLeft = file.samplesLeft

C4_Witness ==
    /\ status = "open" /\ SoundHeader
    /\ seg.parts = 2 /\ Len(seg.out) >= 3
    /\ last.op = "read" /\ last.ret >= 1 /\ last.gets >= 1
    /\ last.pre.samplesReady > 0

\* getOneBlock returned false during the last call
GetFailed == last.op = "read" /\ last.gets > last.decodes

\* the stream is drained and every declared sample was produced
Exhausted ==
    /\ status = "open"
    /\ file.samplesReady = 0 /\ file.samplesLeft = 0
    /\ produced = DeclaredSamples

\* C5 as stated: on any accepted header, unless getOneBlock fails, repeated
\* readSamples calls with count > 0 eventually drain the stream having
\* produced exactly the declared sample count.
C5_ExhaustionAnyHeader ==
    (status = "open") ~> (Exhausted \/ GetFailed)

\* C5 amended: the same, for headers with a non-negative sample count and a
\* positive blockSize.
C5_ExactExhaustion ==
    (status = "open" /\ SoundHeader) ~> (Exhausted \/ GetFailed)

C5_Witness ==
    /\ Exhausted /\ SoundHeader /\ ~GetFailed
    /\ produced >= 3 /\ file.pos >= HEADER_SIZE + 2

\* C6: a readSamples call made with samplesReady = 0 and samplesLeft = 0
\* returns 0, calls neither the unpacker nor the decoder, and leaves
\* samplesReady, samplesLeft, the block cursor and the stream position (the
\* whole object) as they were.
C6_ShortReadTermination ==
    (last.op = "read" /\ last.pre.samplesReady = 0 /\ last.pre.samplesLeft = 0)
        => /\ status = "open"
           /\ last.ret = 0 /\ last.out = <<>>
           /\ last.gets = 0 /\ last.decodes = 0
           /\ file = last.pre

C6_Witness ==
    /\ last.op = "read" /\ last.count > 0
    /\ last.pre.samplesReady = 0 /\ last.pre.samplesLeft = 0
    /\ produced >= 2
    /\ file.pos - HEADER_SIZE < Len(stream.payload)

\* the bytes of a 32-bit two's complement integer, little endian
Int32Bytes(x) ==
    <<x % 256, (x \div 256) % 256, (x \div 65536) % 256,
      (x \div 16777216) % 256>>

\* the geometry word at offset 12, unsigned and as the int16_t it is read
\* into
GeometryUnsigned == stream.header[13] + 256 * stream.header[14]
GeometrySigned ==
    IF GeometryUnsigned >= 32768 THEN GeometryUnsigned - 65536
    ELSE GeometryUnsigned

\* C7 as stated: construction sets levels to the word shifted right by 4
\* and subblocks to its low 4 bits.
C7_LevelsHighSubblocksLow ==
    (status = "open")
        => /\ file.levels = GeometryUnsigned \div 16
           /\ file.subblocks = GeometryUnsigned % 16

\* C7 amended: construction sets subblocks to the word, taken as a signed
\* 16-bit integer, shifted right by 4 arithmetically, and levels to its low
\* 4 bits; an open File holds these values.
C7_GeometryDecoding ==
    ctor.headerRead
        => /\ ctor.levels \in 0..15
           /\ 16 * ctor.subblocks + ctor.levels = GeometrySigned
           /\ (status = "open" =>
                 file.levels = ctor.levels /\ file.subblocks = ctor.subblocks)

C7_Witness ==
    /\ status = "open" /\ last.op = "construct"
    /\ GeometryUnsigned = 33
    /\ file.levels = 1 /\ file.subblocks = 2

\* C8: a File constructed from a header with the magic signature has
\* blockSize = (1 << levels) * subblocks, and samples(), channels() and
\* bitrate() return the header's fields; right after construction
\* samplesLeft() is the header's sample count and samplesReady is 0.
C8_HeaderRoundTrip ==
    (status = "open")
        => /\ file.blockSize = Pow2(file.levels) * file.subblocks
           /\ Int32Bytes(samples(file)) = SubSeq(stream.header, 5, 8)
           /\ WordBytes(channels(file)) = SubSeq(stream.header, 9, 10)
           /\ WordBytes(bitrate(file)) = SubSeq(stream.header, 11, 12)
           /\ (last.op = "construct" =>
                 /\ Int32Bytes(samplesLeft(file)) = SubSeq(stream.header, 5, 8)
                 /\ file.samplesReady = 0)

C8_Witness ==
    /\ status = "open" /\ last.op = "construct"
    /\ file.levels = 1 /\ file.subblocks = 2 /\ file.blockSize = 4
    /\ samples(file) = 3 /\ samplesLeft(file) = 3
    /\ channels(file) = 2 /\ bitrate(file) = 44100

\* C9: when the first four bytes differ from the magic constant,
\* construction fails on the signature, before samples and samplesLeft are
\* set, before the block buffer is allocated and before the unpacker or the
\* decoder is constructed; no File results.
C9_SignatureRejection ==
    (status # "unopened" /\ SubSeq(stream.header, 1, 4) # IP_ACM_SIG)
        => /\ status = "failed"
           /\ ctor.error = "signature"
           /\ ~ctor.samplesSet /\ ~ctor.blockAllocated
           /\ ~ctor.unpackerMade /\ ~ctor.decoderMade
           /\ file = NoFile

C9_Witness ==
    /\ status = "failed" /\ ctor.error = "signature"
    /\ SubSeq(stream.header, 1, 4) # IP_ACM_SIG
    /\ SubSeq(stream.header, 5, 8) = <<3, 0, 0, 0>>
    /\ GeometryUnsigned = 33

\* C10: in every state of an open File, through any interleaving of
\* readSamples and rewind, samplesReady + samplesLeft <= samples.
C10_CounterInvariant ==
    (status = "open")
        => file.samplesReady + file.samplesLeft <= file.samples

C10_Witness ==
    /\ status = "open" /\ rewound /\ last.op = "read"
    /\ file.samplesReady > 0 /\ file.samplesLeft > 0

\* the File of the worked example: levels 3, subblocks 4, 50 samples
ScenarioGeometry ==
    /\ file.levels = 3
    /\ file.subblocks = 4
    /\ file.blockSize = 32
    /\ file.samples = 50

\* the last call was readSamples(buf, 50) on a fresh File of the worked
\* example, and no getOneBlock failed during it
ScenarioFullRead ==
    /\ status = "open"
    /\ ScenarioGeometry
    /\ last.op = "read"
    /\ last.count = 50
    /\ last.pre = Fresh
    /\ last.gets = last.decodes

\* C11: in the worked example a single readSamples(buf, 50) on a fresh
\* stream whose unpacker does not fail returns exactly 50 and refills the
\* block exactly twice, making 32 and then 18 samples ready.
C11_ScenarioProducedCount ==
    ScenarioFullRead =>
        /\ last.ret = 50
        /\ Len(last.out) = 50
        /\ last.gets = 2
        /\ last.refills = <<32, 18>>

C11_Witness ==
    /\ ScenarioFullRead
    /\ last.ret = 50
    /\ last.refills = <<32, 18>>

\* C12 as stated: after the full read of the worked example 14 samples of
\* the second block are still ready.
C12_RemainderStaysReady ==
    (ScenarioFullRead /\ last.ret = 50) => file.samplesReady = 14

\* the File right after the full read of the worked example
AfterFullRead == readSamples(Fresh, 50, stream.payload, 50)

\* C12: after the full read of the worked example samplesReady and
\* samplesLeft are both 0 (the second refill made only 18 samples ready of
\* its 32 slots and all 18 were delivered), and the next readSamples
\* returns 0 without touching the File.
C12_ScenarioFinalState ==
    /\ (ScenarioFullRead /\ last.ret = 50) =>
           /\ file.samplesReady = 0
           /\ file.samplesLeft = 0
           /\ file.values = 18
    /\ ( /\ status = "open"
         /\ ScenarioGeometry
         /\ last.op = "read"
         /\ AfterFullRead.res = 50
         /\ AfterFullRead.gets = AfterFullRead.decodes
         /\ last.pre = AfterFullRead.F ) =>
           /\ last.ret = 0
           /\ last.gets = 0
           /\ file = last.pre

C12_Witness ==
    /\ status = "open"
    /\ ScenarioGeometry
    /\ last.op = "read"
    /\ last.count > 0
    /\ AfterFullRead.res = 50
    /\ last.pre = AfterFullRead.F
    /\ last.pre.samplesReady = 0
    /\ last.ret = 0

\* C13: after rewind() the stream position is 14, the header size and the
\* position at which the constructor's header reads ended; samplesReady
\* is 0, samplesLeft equals samples, the unpacker was reset exactly once,
\* and samples, channels, bitrate, levels, subblocks and blockSize are
\* what they were before the call.
C13_RewindPostcondition ==
    (status = "open" /\ last.op = "rewind") =>
        /\ file.pos = 14
        /\ file.pos = HEADER_SIZE
        /\ file.pos = ctor.parsedPos
        /\ file.samplesReady = 0
        /\ file.samplesLeft = file.samples
        /\ last.resets = 1
        /\ file.uctx = UnpackerInitCtx
        /\ file.samples = last.pre.samples
        /\ file.channels = last.pre.channels
        /\ file.bitrate = last.pre.bitrate
        /\ file.levels = last.pre.levels
        /\ file.subblocks = last.pre.subblocks
        /\ file.blockSize = last.pre.blockSize

C13_Witness ==
    /\ status = "open"
    /\ last.op = "rewind"
    /\ last.pre.pos > HEADER_SIZE
    /\ last.pre.samplesReady > 0
    /\ last.pre.samplesLeft < last.pre.samples
    /\ file.pos = HEADER_SIZE
    /\ file.samplesLeft = file.samples

\* C14: readSamples never returns more than count; when it returns less,
\* samplesReady is 0 at return and either samplesLeft is 0 or a
\* getOneBlock of that call returned false; a call that meets the end of
\* the stream returns normally.
C14_ShortReadSignalsEnd ==
    /\ (status = "open" /\ last.op = "read") =>
           /\ last.ret <= last.count
           /\ Len(last.out) = last.ret
           /\ last.ret < last.count =>
                  /\ file.samplesReady = 0
                  /\ file.samplesLeft = 0 \/ last.gets > last.decodes
    /\ (last.op = "read" /\ last.gets > last.decodes) => status = "open"
    /\ ( /\ last.op = "read"
         /\ last.pre.samplesReady = 0
         /\ last.pre.samplesLeft = 0 ) =>
           /\ status = "open"
           /\ last.ret = 0

C14_Witness ==
    /\ status = "open"
    /\ last.op = "read"
    /\ last.ret > 0
    /\ last.ret < last.count
    /\ last.gets > last.decodes
    /\ file.samplesLeft > 0
    /\ file.samplesReady = 0

\* the constructor got past the signature check
SignatureAccepted == ctor.headerRead /\ ctor.error # "signature"

\* C15 as stated: a constructed File has blockSize > 0 and a block buffer
\* of blockSize slots, and a header whose geometry gives blockSize <= 0 makes
\* construction fail.
C15_GeometryInvariant ==
    /\ status = "open" =>
           /\ file.blockSize > 0
           /\ Len(file.block) = file.blockSize
    /\ (SignatureAccepted /\ BlockSizeOf(ctor.levels, ctor.subblocks) <= 0) =>
           status = "failed"

\* C15: a constructed File has a block buffer of exactly blockSize slots,
\* blockSize = (1 << levels) * subblocks >= 0; a header whose geometry word
\* is negative (blockSize < 0) makes construction fail when the buffer is
\* sized; a blockSize of 0 is accepted whenever both init() calls succeed.
C15_BlockBufferMatchesGeometry ==
    /\ status = "open" =>
           /\ file.blockSize >= 0
           /\ file.blockSize = Pow2(file.levels) * file.subblocks
           /\ Len(file.block) = file.blockSize
    /\ (SignatureAccepted /\ ctor.subblocks < 0) =>
           /\ status = "failed"
           /\ ctor.error = "length"
           /\ ~ctor.unpackerMade
    /\ ( /\ last.op = "construct"
         /\ SignatureAccepted
         /\ ctor.subblocks >= 0
         /\ last.uOk
         /\ last.dOk ) => status = "open"

C15_Witness ==
    /\ status = "open"
    /\ last.op = "construct"
    /\ file.subblocks = 0
    /\ file.blockSize = 0
    /\ file.block = <<>>

\* C16: past the signature check, construction fails when the unpacker's
\* init() reports failure, and when the unpacker's succeeds and the
\* decoder's reports failure; the decoder is constructed only after the
\* unpacker's init() succeeded.
C16_InitializationFailure ==
    /\ ctor.decoderMade => (ctor.unpackerMade /\ ctor.unpackerInit)
    /\ ctor.decoderInit => ctor.decoderMade
    /\ (last.op = "construct" /\ SignatureAccepted) =>
           /\ (~last.uOk \/ ~last.dOk) =>
                  (status = "failed" /\ file = NoFile /\ ctor.error # "none")
           /\ (ctor.unpackerMade /\ ~last.uOk) =>
                  /\ ctor.error = "unpacker"
                  /\ ~ctor.unpackerInit
                  /\ ~ctor.decoderMade
           /\ (ctor.unpackerMade /\ last.uOk /\ ~last.dOk) =>
                  /\ ctor.error = "decoder"
                  /\ ctor.decoderMade
                  /\ ~ctor.decoderInit

C16_Witness ==
    /\ last.op = "construct"
    /\ SignatureAccepted
    /\ last.uOk
    /\ ~last.dOk
    /\ status = "failed"
    /\ ctor.error = "decoder"
    /\ ctor.unpackerInit
    /\ ctor.decoderMade

\* the events of the last readSamples call, in order
Trace == last.trace

\* C17: in a readSamples call every getOneBlock that succeeds is followed
\* by exactly one decodeData, called with subblocks, after which the block
\* cursor is at slot 0, samplesReady is min(blockSize, samplesLeft before)
\* and samplesLeft is what it was less that amount; decodeData is called
\* at no other point; a getOneBlock that fails ends the call with
\* samplesReady 0, samplesLeft and the cursor as they were, and the samples
\* produced so far returned.
C17_BlockRefillStep ==
    last.op = "read" =>
        \A i \in DOMAIN Trace :
            /\ (Trace[i].op = "get" /\ Trace[i].val = 1) =>
                   /\ i + 2 <= Len(Trace)
                   /\ Trace[i + 1].op = "decode"
                   /\ Trace[i + 1].val = file.subblocks
                   /\ Trace[i + 2].op = "refill"
                   /\ Trace[i + 2].at = 0
                   /\ Trace[i + 2].ready <= file.blockSize
                   /\ Trace[i + 2].ready <= Trace[i].left
                   /\ Trace[i + 2].ready \in {file.blockSize, Trace[i].left}
                   /\ Trace[i + 2].left = Trace[i].left - Trace[i + 2].ready
            /\ Trace[i].op = "decode" =>
                   /\ i > 1
                   /\ Trace[i - 1].op = "get"
                   /\ Trace[i - 1].val = 1
            /\ (Trace[i].op = "get" /\ Trace[i].val = 0) =>
                   /\ i = Len(Trace)
                   /\ status = "open"
                   /\ Trace[i].ready = 0
                   /\ file.samplesReady = 0
                   /\ file.samplesLeft = Trace[i].left
                   /\ file.values = Trace[i].at
                   /\ last.ret = Calls(Trace, "emit")
                   /\ last.ret < last.count

C17_Witness ==
    /\ last.op = "read"
    /\ Len(Trace) > 3
    /\ Trace[1].op = "get"
    /\ Trace[1].val = 1
    /\ Trace[2].op = "decode"
    /\ Trace[3].op = "refill"
    /\ Trace[3].ready > 0
    /\ Trace[Len(Trace)].op = "get"
    /\ Trace[Len(Trace)].val = 0
    /\ last.ret > 0

\* within a readSamples call a sample is read from the block only after
\* another sample of the same block or right after the refill, a refill is
\* a completed getOneBlock and decodeData, and samples left ready by an
\* earlier call come from a block fetched since the stream was opened or
\* rewound
EmitsFollowRefill ==
    /\ last.op = "read" =>
           \A i \in DOMAIN Trace :
               /\ Trace[i].op \in {"emit", "fault"} =>
                      IF i = 1
                      THEN last.pre.samplesReady # 0
                      ELSE Trace[i - 1].op \in {"emit", "refill"}
               /\ Trace[i].op = "refill" =>
                      /\ i > 2
                      /\ Trace[i - 1].op = "decode"
                      /\ Trace[i - 2].op = "get"
                      /\ Trace[i - 2].val = 1
    /\ (status = "open" /\ file.samplesReady # 0) => file.pos > HEADER_SIZE

\* C18 as stated: getOneBlock is called only with samplesReady = 0 and
\* samplesLeft > 0, and no sample is emitted from a block before its
\* getOneBlock and decodeData completed.
C18_RefillOnlyWithSamplesLeft ==
    /\ last.op = "read" =>
           \A i \in DOMAIN Trace :
               Trace[i].op = "get" =>
                   (Trace[i].ready = 0 /\ Trace[i].left > 0)
    /\ EmitsFollowRefill

\* C18: getOneBlock is called only with samplesReady = 0 and samplesLeft
\* different from 0, which is samplesLeft > 0 when the header's sample
\* count is not negative; no sample is emitted from a block before its
\* getOneBlock and decodeData completed.
C18_RefillOrdering ==
    /\ last.op = "read" =>
           \A i \in DOMAIN Trace :
               Trace[i].op = "get" =>
                   /\ Trace[i].ready = 0
                   /\ Trace[i].left # 0
                   /\ file.samples >= 0 => Trace[i].left > 0
    /\ EmitsFollowRefill

C18_Witness ==
    /\ status = "open"
    /\ last.op = "read"
    /\ Len(Trace) > 4
    /\ Trace[1].op = "emit"
    /\ Trace[2].op = "get"
    /\ Trace[2].val = 1
    /\ Trace[2].left > 0
    /\ Trace[Len(Trace)].op = "emit"

\* the number of samples emitted up to and including event i
EmittedUpTo(i) == Cardinality({j \in 1..i : Trace[j].op = "emit"})

\* event i read a slot of the block buffer
InBlock(i) == Trace[i].at >= 0 /\ Trace[i].at < file.blockSize

\* slot value v shifted right by levels bits, sign preserved: the floor of
\* v / 2^levels
Shifted(v) == (v - (v % Pow2(file.levels))) \div Pow2(file.levels)

\* C19: the k-th sample emitted after a refill is read from block slot k
\* and written to the next position of the caller's buffer; its 16 bits,
\* read as a signed integer, are the low 16 bits of the slot value shifted
\* right arithmetically by levels; each emission advances the block cursor
\* by one, the produced count by one and takes one from samplesReady.
C19_SampleEmission ==
    last.op = "read" =>
        /\ Len(last.out) = Calls(Trace, "emit")
        /\ status = "open" => last.ret = Calls(Trace, "emit")
        /\ \A i \in DOMAIN Trace :
               Trace[i].op = "emit" =>
                   /\ IF i = 1
                      THEN Trace[i].at = last.pre.values
                      ELSE IF Trace[i - 1].op = "refill"
                      THEN Trace[i].at = 0
                      ELSE /\ Trace[i - 1].op = "emit"
                           /\ Trace[i].at = Trace[i - 1].at + 1
                   /\ IF i < Len(Trace)
                      THEN /\ Trace[i + 1].at = Trace[i].at + 1
                           /\ Trace[i + 1].ready = Trace[i].ready - 1
                      ELSE /\ file.values = Trace[i].at + 1
                           /\ file.samplesReady = Trace[i].ready - 1
                   /\ InBlock(i) =>
                          /\ last.out[EmittedUpTo(i)] \in 0..65535
                          /\ AsInt16(last.out[EmittedUpTo(i)]) \in -32768..32767
                          /\ (AsInt16(last.out[EmittedUpTo(i)])
                                 - Shifted(Trace[i].val)) % 65536 = 0

\* a negative odd slot value beyond the 16-bit range, emitted second from
\* its block with levels = 1
C19_Witness ==
    /\ status = "open"
    /\ last.op = "read"
    /\ file.levels = 1
    /\ \E i \in DOMAIN Trace :
           /\ Trace[i].op = "emit"
           /\ Trace[i].at = 1
           /\ InBlock(i)
           /\ Trace[i].val < -65536
           /\ Trace[i].val % 2 = 1
           /\ AsInt16(last.out[EmittedUpTo(i)]) # Shifted(Trace[i].val)

\* the block cursor and the samples ready from it are within the block
CursorBounds ==
    /\ 0 <= file.values
    /\ file.values + file.samplesReady <= file.blockSize

\* the counters are within the block and the stream, and every sample is
\* read from a slot of the block
BlockBufferBounds ==
    /\ 0 <= file.samplesReady
    /\ file.samplesReady <= file.blockSize
    /\ 0 <= file.samplesLeft
    /\ file.samplesLeft <= file.samples
    /\ Len(file.block) = file.blockSize
    /\ last.op = "read" =>
           /\ ~last.outside
           /\ \A i \in DOMAIN Trace :
                  Trace[i].op \in {"emit", "fault"} => InBlock(i)

\* C20 as stated: the bounds hold in every state of a constructed File.
C20_BoundsAnyHeader ==
    status \in {"open", "crashed"} => (BlockBufferBounds /\ CursorBounds)

\* C20: on a constructed File whose header has a non-negative sample count
\* and a positive blockSize, in every state reached through readSamples
\* and rewind, 0 <= samplesReady <= blockSize and 0 <= samplesLeft <=
\* samples; until the first refill the cursor is not assigned and
\* samplesReady is 0, and from then on 0 <= cursor and cursor +
\* samplesReady <= blockSize; every emitted sample is read from a slot in
\* [0, blockSize), and no read faults.
C20_BlockBufferBounds ==
    (status \in {"open", "crashed"} /\ SoundHeader) =>
        /\ status = "open"
        /\ BlockBufferBounds
        /\ IF file.values = Unassigned
           THEN file.samplesReady = 0 /\ produced = 0
           ELSE CursorBounds

C20_Witness ==
    /\ status = "open"
    /\ SoundHeader
    /\ last.op = "read"
    /\ last.pre.values = Unassigned
    /\ last.ret > 0
    /\ file.values > 0
    /\ file.samplesReady > 0
    /\ file.values + file.samplesReady = file.blockSize

\* C21: between calls, the samples produced since construction or the
\* last rewind, plus samplesReady, plus samplesLeft, equal samples, however
\* the reads were split and whether or not getOneBlock failed; so what
\* samplesLeft() reports is samples less the produced and the ready ones.
C21_ExactAccounting ==
    status = "open" =>
        /\ produced + file.samplesReady + file.samplesLeft = file.samples
        /\ samplesLeft(file) = samples(file) - produced - file.samplesReady

C21_Witness ==
    /\ status = "open"
    /\ rewound
    /\ last.op = "read"
    /\ produced > 0
    /\ file.samplesReady > 0
    /\ file.samplesLeft > 0
    /\ samplesLeft(file) < samples(file) - produced

\* the last readSamples call ran at most count passes of its loop, each
\* one stopping the loop or producing one sample, and called getOneBlock
\* at most once per blockSize samples produced, plus once; with count 0
\* it produced nothing, called nothing and changed nothing
BoundedRead ==
    /\ last.ret <= last.count
    /\ last.iters <= last.count
    /\ last.iters \in {last.ret, last.ret + 1}
    /\ last.ret = Calls(Trace, "emit")
    /\ last.iters = last.ret + 1 =>
           /\ last.ret < last.count
           /\ file.samplesReady = 0
           /\ file.samplesLeft = 0 \/ Trace[Len(Trace)].op = "get"
    /\ last.gets = Calls(Trace, "get")
    /\ last.gets <= last.iters
    /\ (last.gets - 1) * file.blockSize <= last.ret
    /\ last.count = 0 =>
           /\ last.ret = 0
           /\ last.iters = 0
           /\ Trace = <<>>
           /\ file = last.pre

\* C22 as stated: every readSamples call returns, within these limits.
C22_EveryReadReturns ==
    last.op = "read" =>
        /\ status = "open"
        /\ BoundedRead

\* C22: every readSamples(buffer, count) call that returns has run at
\* most count loop iterations, each one stopping the loop or producing
\* exactly one sample, with at most one getOneBlock call per blockSize
\* samples produced plus one, and with count = 0 it returns 0 without
\* calling the unpacker and without changing any state; on a File whose
\* header has a non-negative sample count and a positive blockSize every
\* call returns.
C22_ReadTerminates ==
    /\ (last.op = "read" /\ SoundHeader) => status = "open"
    /\ (last.op = "read" /\ status = "open") => BoundedRead

C22_Witness ==
    /\ status = "open"
    /\ SoundHeader
    /\ last.op = "read"
    /\ last.count > 1
    /\ last.iters = last.count
    /\ last.ret = last.count - 1
    /\ last.gets > 1
    /\ (last.gets - 1) * file.blockSize = last.ret
====
